---- MODULE Spec2Model ----
(***************************************************************************)
(* Model of x-mcp-server: the error classifier / responder                 *)
(* (src/utils/error-handler.ts) and the tool operations that delegate      *)
(* their failures to it.  SpecErr calls the exported classifier functions  *)
(* directly, Spec runs one tool invocation against the registry, SpecPair  *)
(* runs three invocations, two of them interleaved at their awaits.        *)
(*                                                                         *)
(* JavaScript values are tagged records; an object carries its own         *)
(* properties in the function f, and "k in obj" is k \in DOMAIN f.         *)
(* A JSON text is represented by the value JSON.parse would read back      *)
(* from it (Jsonify), so undefined-valued keys are dropped and NaN         *)
(* becomes null, as JSON.stringify does.                                   *)
(***************************************************************************)
EXTENDS Integers, Sequences, FiniteSets, TLC

VARIABLES
  now,            \* wall clock in milliseconds (new Date().getTime())
  error,          \* classifier input: the thrown value
  customMessage,  \* classifier input: the optional prefix
  call,           \* which exported classifier function has been applied
  ret,            \* its outcome: [st |-> "return"|"throw", v |-> value]
  log,            \* console.error lines written so far
  inv,            \* tool invocations: process -> state of its execute call
  server          \* dispatch surface: the tools attached so far, registerTools calls

vars == <<now, error, customMessage, call, ret, log, inv, server>>

(***************************************************************************)
(* JavaScript values                                                       *)
(***************************************************************************)
Undef == [t |-> "undefined"]
Null == [t |-> "null"]
NaN == [t |-> "nan"]
Str(s) == [t |-> "string", s |-> s]
Num(n) == [t |-> "number", n |-> n]
Bool(b) == [t |-> "boolean", b |-> b]
Obj(fields) == [t |-> "object", isError |-> FALSE, f |-> fields]
ErrorObj(fields) == [t |-> "object", isError |-> TRUE, f |-> fields]
Arr(a) == [t |-> "array", a |-> a]

\* typeof v
TypeOf(v) ==
  CASE v.t = "undefined" -> "undefined"
    [] v.t = "null" -> "object"
    [] v.t = "nan" -> "number"
    [] v.t = "array" -> "object"
    [] OTHER -> v.t

\* k in v   (v a non-null object)
Has(v, k) == v.t = "object" /\ k \in DOMAIN v.f

\* v.k
Get(v, k) == IF Has(v, k) THEN v.f[k] ELSE Undef

\* ToBoolean(v)
Truthy(v) ==
  CASE v.t = "undefined" -> FALSE
    [] v.t = "null" -> FALSE
    [] v.t = "nan" -> FALSE
    [] v.t = "boolean" -> v.b
    [] v.t = "number" -> v.n # 0
    [] v.t = "string" -> v.s # ""
    [] OTHER -> TRUE

\* v instanceof Error
InstanceOfError(v) == v.t = "object" /\ v.isError

\* String(v); model strings are never numeric literals, plain objects
\* keep Object.prototype.toString
String(v) ==
  CASE v.t = "undefined" -> "undefined"
    [] v.t = "null" -> "null"
    [] v.t = "nan" -> "NaN"
    [] v.t = "boolean" -> (IF v.b THEN "true" ELSE "false")
    [] v.t = "number" -> ToString(v.n)
    [] v.t = "string" -> v.s
    [] v.t = "object" /\ v.isError -> "Error: " \o Get(v, "message").s
    [] OTHER -> "[object Object]"

\* ToNumber(v) for the values the model draws (strings are non-numeric)
ToNumber(v) ==
  CASE v.t = "number" -> v
    [] v.t = "null" -> Num(0)
    [] v.t = "boolean" -> (IF v.b THEN Num(1) ELSE Num(0))
    [] OTHER -> NaN

\* a * b on JS values
Times(a, b) ==
  LET x == ToNumber(a) y == ToNumber(b)
  IN IF x.t = "nan" \/ y.t = "nan" THEN NaN ELSE Num(x.n * y.n)

\* s contains sub
Contains(s, sub) ==
  \E i \in 1..(Len(s) - Len(sub) + 1) : SubSeq(s, i, i + Len(sub) - 1) = sub

\* JSON.parse(JSON.stringify(v)): the content of the serialized text
RECURSIVE Jsonify(_)
Jsonify(v) ==
  CASE v.t = "object" ->
         Obj([k \in {j \in DOMAIN v.f : v.f[j].t # "undefined"} |-> Jsonify(v.f[k])])
    [] v.t = "array" ->
         Arr([i \in 1..Len(v.a) |->
                IF v.a[i].t = "undefined" THEN Null ELSE Jsonify(v.a[i])])
    [] v.t = "nan" -> Null
    [] OTHER -> v

(***************************************************************************)
(* Date: toISOString of a time value in milliseconds since the epoch       *)
(***************************************************************************)
Pad(n, w) ==
  LET s == ToString(n)
  IN SubSeq("0000", 1, w - Len(s)) \o s

\* Gregorian date of a day number (days since 1970-01-01), by era (400 years),
\* day of era, year of era, day of the year counted from 1 March, and month
\* counted from March
YearOfEra(doe) == (doe - doe \div 1460 + doe \div 36524 - doe \div 146096) \div 365
DayOfYear(doe, yoe) == doe - (365 * yoe + yoe \div 4 - yoe \div 100)
CivilOfMonth(era, yoe, doy, mp) ==
  [y |-> yoe + era * 400 + (IF mp < 10 THEN 0 ELSE 1),
   m |-> IF mp < 10 THEN mp + 3 ELSE mp - 9,
   d |-> doy - (153 * mp + 2) \div 5 + 1]
CivilOfYear(era, doe, yoe) ==
  CivilOfMonth(era, yoe, DayOfYear(doe, yoe), (5 * DayOfYear(doe, yoe) + 2) \div 153)
CivilFromDays(z0) ==
  CivilOfYear((z0 + 719468) \div 146097, (z0 + 719468) % 146097,
              YearOfEra((z0 + 719468) % 146097))

ToISOString(ms) ==
  LET c == CivilFromDays(ms \div 86400000)
      r == ms % 86400000
  IN Pad(c.y, 4) \o "-" \o Pad(c.m, 2) \o "-" \o Pad(c.d, 2) \o "T"
     \o Pad(r \div 3600000, 2) \o ":" \o Pad((r \div 60000) % 60, 2) \o ":"
     \o Pad((r \div 1000) % 60, 2) \o "." \o Pad(r % 1000, 3) \o "Z"

\* Math.ceil(x / 1000 / 60) for an integer x
CeilMinutes(x) == -((-x) \div 60000)

Max(a, b) == IF a >= b THEN a ELSE b
Min(a, b) == IF a <= b THEN a ELSE b

(***************************************************************************)
(* Outcomes of a call: a returned value or a thrown one                    *)
(***************************************************************************)
Return(v) == [st |-> "return", v |-> v]
Throw(v) == [st |-> "throw", v |-> v]

RangeError == ErrorObj([message |-> Str("Invalid time value"),
                        stack |-> Str("RangeError: Invalid time value\n    at Date.toISOString")])

(***************************************************************************)
(* Error classifier and responder (src/utils/error-handler.ts)             *)
(***************************************************************************)
\* variant that accepts a code of any type
isTwitterApiError_AnyCode(e) ==
  /\ TypeOf(e) = "object"
  /\ e.t # "null"
  /\ Has(e, "code")

isTwitterApiError(e) ==
  /\ TypeOf(e) = "object"
  /\ e.t # "null"
  /\ Has(e, "code")
  /\ TypeOf(Get(e, "code")) = "number"

\* variant that only compares the HTTP status code
isRateLimitError_CodeOnly(e) ==
  IF ~isTwitterApiError(e) THEN FALSE
  ELSE IF Get(e, "code") = Num(429) THEN TRUE
  ELSE FALSE

isRateLimitError(e) ==
  IF ~isTwitterApiError(e) THEN FALSE
  ELSE IF Has(e, "rateLimitError") /\ Get(e, "rateLimitError") = Bool(TRUE) THEN TRUE
  ELSE IF Get(e, "code") = Num(429) THEN TRUE
  ELSE FALSE

\* variant that rounds down instead of up
ResetInMinutes_Floor(resetMs, nowMs) == Max(0, (resetMs - nowMs) \div 60000)

\* Math.max(0, Math.ceil((resetDate.getTime() - now.getTime()) / 1000 / 60))
ResetInMinutes(resetMs, nowMs) == Max(0, CeilMinutes(resetMs - nowMs))

\* Outcome of extractRateLimitInfo at clock nowMs: Return(undefined),
\* Return(RateLimitInfo), or the RangeError of toISOString on an invalid Date
extractRateLimitInfo(e, nowMs) ==
  IF ~isTwitterApiError(e) \/ ~Truthy(Get(e, "rateLimit")) THEN Return(Undef)
  ELSE LET rl == Get(e, "rateLimit")
           limit == Get(rl, "limit")
           remaining == Get(rl, "remaining")
           reset == Get(rl, "reset")
           resetDate == Times(reset, Num(1000))
       IN IF resetDate.t = "nan" THEN Throw(RangeError)
          ELSE Return(Obj([limit |-> limit,
                           remaining |-> remaining,
                           reset |-> reset,
                           resetAt |-> Str(ToISOString(resetDate.n)),
                           resetInMinutes |-> Num(ResetInMinutes(resetDate.n, nowMs))]))

\* crypto.randomBytes(4).toString("hex")
HexDigits == "0123456789abcdef"
HexByte(b) ==
  SubSeq(HexDigits, (b \div 16) + 1, (b \div 16) + 1)
  \o SubSeq(HexDigits, (b % 16) + 1, (b % 16) + 1)
\* variant that renders the bytes in upper-case hexadecimal
generateErrorId_UpperCase(bytes) ==
  LET Upper(b) == SubSeq("0123456789ABCDEF", (b \div 16) + 1, (b \div 16) + 1)
                  \o SubSeq("0123456789ABCDEF", (b % 16) + 1, (b % 16) + 1)
  IN Upper(bytes[1]) \o Upper(bytes[2]) \o Upper(bytes[3]) \o Upper(bytes[4])

generateErrorId(bytes) ==
  HexByte(bytes[1]) \o HexByte(bytes[2]) \o HexByte(bytes[3]) \o HexByte(bytes[4])

\* The console.error lines written for one error
logErrorDetails(e, errorId) ==
  <<[tag |-> "[Error " \o errorId \o "]", v |-> e]>>
  \o (IF InstanceOfError(e) /\ Truthy(Get(e, "stack"))
      THEN <<[tag |-> "[Stack " \o errorId \o "]", v |-> Get(e, "stack")]>>
      ELSE <<>>)

\* variant without the final String(error) branch
handleError_NoStringBranch(e, errorId) ==
  LET message ==
        IF InstanceOfError(e) THEN Get(e, "message").s
        ELSE IF TypeOf(e) = "object" /\ e.t # "null" /\ Has(e, "message")
                /\ TypeOf(Get(e, "message")) = "string"
             THEN Get(e, "message").s
        ELSE "An unexpected error occurred"
  IN [message |-> message, errorId |-> errorId]

handleError(e, errorId) ==
  LET message ==
        IF InstanceOfError(e) THEN Get(e, "message").s
        ELSE IF TypeOf(e) = "object" /\ e.t # "null" /\ Has(e, "message")
             THEN (IF TypeOf(Get(e, "message")) = "string"
                   THEN Get(e, "message").s
                   ELSE "An unexpected error occurred")
        ELSE String(e)
  IN [message |-> message, errorId |-> errorId]

\* An MCP result whose single text content is the JSON text of data
TextResult(data) == <<[type |-> "text", text |-> Jsonify(data)]>>

\* variant that always adds a retry hint, fabricated when no metadata exists
RateLimitDetails_DefaultHint(rli, original) ==
  IF Truthy(rli)
  THEN [original_error |-> Str(original),
        rate_limit |-> Obj([limit |-> Get(rli, "limit"),
                            remaining |-> Get(rli, "remaining"),
                            reset_at |-> Get(rli, "resetAt"),
                            reset_in_minutes |-> Get(rli, "resetInMinutes")]),
        message |-> IF Get(rli, "resetInMinutes").n > 0
                    THEN Str("Please retry in " \o String(Get(rli, "resetInMinutes"))
                             \o " minute(s).")
                    ELSE Str("Rate limit resets momentarily")]
  ELSE [original_error |-> Str(original),
        message |-> Str("Rate limit resets momentarily")]

\* details: { original_error, ...(rateLimitInfo && { rate_limit, message }) }
RateLimitDetails(rli, original) ==
  IF Truthy(rli)
  THEN [original_error |-> Str(original),
        rate_limit |-> Obj([limit |-> Get(rli, "limit"),
                            remaining |-> Get(rli, "remaining"),
                            reset_at |-> Get(rli, "resetAt"),
                            reset_in_minutes |-> Get(rli, "resetInMinutes")]),
        message |-> IF Get(rli, "resetInMinutes").n > 0
                    THEN Str("Please retry in " \o String(Get(rli, "resetInMinutes"))
                             \o " minute(s).")
                    ELSE Str("Rate limit resets momentarily")]
  ELSE [original_error |-> Str(original)]

\* createRateLimitErrorResponse once extractRateLimitInfo gave info and
\* handleError gave h; a throw of extractRateLimitInfo comes before handleError logs
RateLimitResponse(info, h, e, cm, errorId) ==
  IF info.st = "throw" THEN [out |-> info, log |-> <<>>]
  ELSE [out |-> Return([content |-> TextResult(Obj(
                          [success |-> Bool(FALSE),
                           error_type |-> Str("RATE_LIMIT_EXCEEDED"),
                           error |-> IF Truthy(cm) THEN cm
                                     ELSE Str("Twitter API rate limit reached"),
                           error_id |-> Str(h.errorId),
                           details |-> Obj(RateLimitDetails(info.v, h.message))])),
                        isError |-> TRUE]),
        log |-> logErrorDetails(e, errorId)]

\* Outcome and log lines of createRateLimitErrorResponse
createRateLimitErrorResponse(e, cm, nowMs, errorId) ==
  RateLimitResponse(extractRateLimitInfo(e, nowMs), handleError(e, errorId), e, cm, errorId)

\* variant of the earlier responder that returns the stack to the caller
createErrorResponse_WithStack(e, cm, nowMs, errorId) ==
  IF isRateLimitError(e) THEN createRateLimitErrorResponse(e, cm, nowMs, errorId)
  ELSE LET h == handleError(e, errorId)
           errorMessage == IF Truthy(cm) THEN String(cm) \o ": " \o h.message
                           ELSE h.message
           stack == IF InstanceOfError(e) THEN Get(e, "stack") ELSE Undef
       IN [out |-> Return([content |-> TextResult(Obj([success |-> Bool(FALSE),
                                                       error |-> Str(errorMessage),
                                                       error_id |-> Str(h.errorId),
                                                       stack |-> stack])),
                           isError |-> TRUE]),
           log |-> logErrorDetails(e, errorId)]

\* variant that drops the prefix of the generic envelope
createErrorResponse_NoPrefix(e, cm, nowMs, errorId) ==
  IF isRateLimitError(e) THEN createRateLimitErrorResponse(e, cm, nowMs, errorId)
  ELSE LET h == handleError(e, errorId)
       IN [out |-> Return([content |-> TextResult(Obj([success |-> Bool(FALSE),
                                                       error |-> Str(h.message),
                                                       error_id |-> Str(h.errorId)])),
                           isError |-> TRUE]),
           log |-> logErrorDetails(e, errorId)]

\* Outcome and log lines of createErrorResponse
createErrorResponse(e, cm, nowMs, errorId) ==
  IF isRateLimitError(e) THEN createRateLimitErrorResponse(e, cm, nowMs, errorId)
  ELSE LET h == handleError(e, errorId)
           errorMessage == IF Truthy(cm) THEN String(cm) \o ": " \o h.message
                           ELSE h.message
       IN [out |-> Return([content |-> TextResult(Obj([success |-> Bool(FALSE),
                                                       error |-> Str(errorMessage),
                                                       error_id |-> Str(h.errorId)])),
                           isError |-> TRUE]),
           log |-> logErrorDetails(e, errorId)]

(***************************************************************************)
(* Inputs of the classifier                                                *)
(***************************************************************************)
NowBase == 1000000000
NowSec == NowBase \div 1000
Nows == {NowBase, NowBase + 1, NowBase + 1000}
ResetOffsets == {-60, -10, 0, 30, 900}
Resets == {NowSec + d : d \in ResetOffsets}
RandomBytes == {<<0, 0, 0, 0>>, <<222, 173, 190, 239>>}
Prefixes == {Undef, Str(""), Str("Failed to post tweet")}

Absent == [t |-> "absent"]
\* the object literal with exactly the fields that are not Absent
Fields(all) == [k \in {j \in DOMAIN all : all[j] # Absent} |-> all[k]]

StackOf(msg) == Str("Error: " \o msg \o "\n    at execute (post-tweet.js:46:31)")

Codes == {Absent, Num(429), Num(400), Str("429")}
Flags == {Absent, Bool(TRUE), Bool(FALSE)}
RateLimits ==
  {Absent, Obj([limit |-> Num(50), remaining |-> Num(0)])}
  \cup {Obj([limit |-> Num(50), remaining |-> Num(0), reset |-> Num(r)]) : r \in Resets}
Messages == {Absent, Str("Rate limit exceeded"), Num(42), Null}

Primitives == {Str("Simple string error"), Num(404), Bool(TRUE), Null, Undef}

PlainObjects ==
  {Obj(Fields([code |-> c, rateLimitError |-> fl, rateLimit |-> rl, message |-> m])) :
     c \in Codes, fl \in Flags, rl \in RateLimits, m \in Messages}
  \cup {Obj([code |-> Str("ERR_001"), detail |-> Str("Something went wrong")])}

\* native Error instances, with and without the twitter-api-v2 fields
ErrorInstances ==
  {ErrorObj(Fields([code |-> c, rateLimitError |-> fl, rateLimit |-> rl,
                    message |-> Str("Test error"), stack |-> StackOf("Test error")])) :
     c \in {Absent, Num(429), Num(400)}, fl \in {Absent, Bool(TRUE)},
     rl \in {Absent, Obj([limit |-> Num(50), remaining |-> Num(0), reset |-> Num(NowSec + 900)])}}

ErrVals == Primitives \cup PlainObjects \cup ErrorInstances

(***************************************************************************)
(* Direct calls of the exported classifier functions                       *)
(***************************************************************************)
NoRet == [st |-> "none", v |-> Undef]

InitErr ==
  /\ now \in Nows
  /\ error \in ErrVals
  /\ customMessage \in Prefixes
  /\ call = "none"
  /\ ret = NoRet
  /\ log = <<>>
  /\ inv = <<>>
  /\ server = [tools |-> <<>>, registerCalls |-> 0]

CallIsRateLimitError ==
  /\ call = "none"
  /\ call' = "isRateLimitError"
  /\ ret' = Return(Bool(isRateLimitError(error)))
  /\ UNCHANGED <<now, error, customMessage, log, inv, server>>

CallExtractRateLimitInfo ==
  /\ call = "none"
  /\ call' = "extractRateLimitInfo"
  /\ ret' = extractRateLimitInfo(error, now)
  /\ UNCHANGED <<now, error, customMessage, log, inv, server>>

CallHandleError ==
  /\ call = "none"
  /\ \E bytes \in RandomBytes :
       LET errorId == generateErrorId(bytes)
           h == handleError(error, errorId)
       IN /\ ret' = Return(Obj([message |-> Str(h.message), errorId |-> Str(h.errorId)]))
          /\ log' = log \o logErrorDetails(error, errorId)
  /\ call' = "handleError"
  /\ UNCHANGED <<now, error, customMessage, inv, server>>

CallCreateErrorResponse ==
  /\ call = "none"
  /\ \E bytes \in RandomBytes :
       \E r \in {createErrorResponse(error, customMessage, now, generateErrorId(bytes))} :
          /\ ret' = r.out
          /\ log' = log \o r.log
  /\ call' = "createErrorResponse"
  /\ UNCHANGED <<now, error, customMessage, inv, server>>

NextErr ==
  \/ CallIsRateLimitError
  \/ CallExtractRateLimitInfo
  \/ CallHandleError
  \/ CallCreateErrorResponse

SpecErr == InitErr /\ [][NextErr]_vars


(***************************************************************************)
(* Strings and paths                                                       *)
(***************************************************************************)
UpperChars == "ABCDEFGHIJKLMNOPQRSTUVWXYZ"
LowerChars == "abcdefghijklmnopqrstuvwxyz"
CharAt(s, i) == SubSeq(s, i, i)
LowerChar(c) ==
  IF \E i \in 1..26 : CharAt(UpperChars, i) = c
  THEN CharAt(LowerChars, CHOOSE i \in 1..26 : CharAt(UpperChars, i) = c)
  ELSE c

RECURSIVE LowerFrom(_, _)
LowerFrom(s, i) == IF i > Len(s) THEN "" ELSE LowerChar(CharAt(s, i)) \o LowerFrom(s, i + 1)
\* s.toLowerCase()
ToLowerCase(s) == LowerFrom(s, 1)

\* s.split(sep).pop(): the part after the last sep, the whole string without one
AfterLast(s, sep) ==
  LET idx == {i \in 1..Len(s) : CharAt(s, i) = sep}
  IN IF idx = {} THEN s
     ELSE SubSeq(s, (CHOOSE i \in idx : \A j \in idx : j <= i) + 1, Len(s))

\* basename(p) of an absolute, normalised path
Basename(path) == AfterLast(path, "/")

\* new Error(msg)
NewError(msg) == ErrorObj([message |-> Str(msg), stack |-> StackOf(msg)])

\* reading property k of v: a TypeError when v is undefined or null
TypeErrorOf(v, k) ==
  NewError("Cannot read properties of " \o String(v) \o " (reading '" \o k \o "')")
Prop(v, k) ==
  IF v.t \in {"undefined", "null"} THEN Throw(TypeErrorOf(v, k)) ELSE Return(Get(v, k))
\* v.k1.k2
Prop2(v, k1, k2) ==
  LET a == Prop(v, k1) IN IF a.st = "throw" THEN a ELSE Prop(a.v, k2)

(***************************************************************************)
(* Media upload helper (src/utils/media-upload.ts)                         *)
(***************************************************************************)
IMAGE_MIME_TYPES ==
  [png |-> "image/png", jpg |-> "image/jpeg", jpeg |-> "image/jpeg",
   gif |-> "image/gif", webp |-> "image/webp"]
VIDEO_MIME_TYPES ==
  [mp4 |-> "video/mp4", mov |-> "video/quicktime", avi |-> "video/x-msvideo",
   webm |-> "video/webm", m4v |-> "video/x-m4v"]
MAX_IMAGE_SIZE == 5 * 1024 * 1024
MAX_VIDEO_SIZE == 512 * 1024 * 1024
LONG_VIDEO_SIZE == 15 * 1024 * 1024

\* table[ext] on an object literal: an own entry, or what the lower-case
\* names of Object.prototype give (a function, the prototype object)
Lookup(table, ext) ==
  IF ext \in DOMAIN table THEN Str(table[ext])
  ELSE IF ext = "constructor" THEN [t |-> "function"]
  ELSE IF ext = "__proto__" THEN Obj(<<>>)
  ELSE Undef

\* (size / 1024 / 1024).toFixed(2)
ToFixed2MB(size) ==
  LET hundredths == (size \div 1048576) * 100
                    + ((size % 1048576) * 100 + 524288) \div 1048576
  IN ToString(hundredths \div 100) \o "." \o Pad(hundredths % 100, 2)

\* uploadImage up to the uploadMedia call, for the file state st found by
\* stat: the thrown Error, or the arguments of uploadMedia
uploadImage(imagePath, st) ==
  LET ext == AfterLast(ToLowerCase(imagePath), ".")
  IN IF ~st.exists THEN Throw(NewError("File not found: " \o Basename(imagePath)))
     ELSE IF ~st.isFile THEN Throw(NewError("Path is not a file: " \o Basename(imagePath)))
     ELSE IF st.size > MAX_IMAGE_SIZE
       THEN Throw(NewError("Image size exceeds 5MB limit (" \o ToFixed2MB(st.size) \o "MB)"))
     ELSE IF ext = "" \/ ~Truthy(Lookup(IMAGE_MIME_TYPES, ext))
       THEN Throw(NewError("Unsupported image format. Supported formats: png, jpg, jpeg, gif, webp"))
     ELSE Return(Obj([mimeType |-> Lookup(IMAGE_MIME_TYPES, ext)]))

uploadVideo(videoPath, st) ==
  LET ext == AfterLast(ToLowerCase(videoPath), ".")
  IN IF ~st.exists THEN Throw(NewError("File not found: " \o Basename(videoPath)))
     ELSE IF ~st.isFile THEN Throw(NewError("Path is not a file: " \o Basename(videoPath)))
     ELSE IF st.size > MAX_VIDEO_SIZE
       THEN Throw(NewError("Video size exceeds 512MB limit (" \o ToFixed2MB(st.size) \o "MB)"))
     ELSE IF ext = "" \/ ~Truthy(Lookup(VIDEO_MIME_TYPES, ext))
       THEN Throw(NewError("Unsupported video format. Supported formats: mp4, mov, avi, webm, m4v"))
     ELSE Return(Obj([mimeType |-> Lookup(VIDEO_MIME_TYPES, ext),
                      target |-> Str("tweet"),
                      longVideo |-> Bool(st.size > LONG_VIDEO_SIZE)]))


(***************************************************************************)
(* Tool invocations (src/tools/*.ts).  An execute call runs up to its next *)
(* await of an external capability call; the capability then resolves or  *)
(* rejects the call and the continuation runs up to the next await or to   *)
(* the settled result.                                                     *)
(***************************************************************************)
Procs == {"p1"}

NoArgs ==
  [text |-> Undef, image_path |-> Undef, video_path |-> Undef, count |-> Undef,
   username |-> Undef, query |-> Undef, tweet_id |-> Undef]

\* stat has not been called
NoStat == [exists |-> FALSE, isFile |-> FALSE, size |-> -1]

IdleInv ==
  [tool |-> "none", via |-> "none", args |-> NoArgs, pc |-> "idle", calls |-> <<>>,
   local |-> Undef, stat |-> NoStat, result |-> NoRet]

\* arguments the dispatch surface hands to execute
Texts == {Str("Hello, World!"), Str("   ")}
ImagePaths ==
  {Undef, Str("/path/to/image.png"), Str("/path/to/notes.txt"),
   Str("/path/to/image.constructor")}
VideoPaths == {Undef, Str("/path/to/VIDEO.MP4")}
Counts == {Undef, Num(-3), Num(0), Num(5), Num(100), Num(150)}
Usernames == {Str("testuser")}
Queries == {Str("typescript")}
TweetIds == {Str("1234567890"), Str("tweet123"), Str("123456789012345678901")}

\* what stat reports for a path
FileStats ==
  {[exists |-> FALSE, isFile |-> FALSE, size |-> 0],
   [exists |-> TRUE, isFile |-> FALSE, size |-> 4096]}
  \cup {[exists |-> TRUE, isFile |-> TRUE, size |-> sz] :
          sz \in {1024, MAX_IMAGE_SIZE, MAX_IMAGE_SIZE + 1, LONG_VIDEO_SIZE + 1,
                  MAX_VIDEO_SIZE + 1}}

\* values an external call can reject with
RateLimitFailure ==
  ErrorObj([code |-> Num(429), rateLimitError |-> Bool(TRUE),
            message |-> Str("API rate limit exceeded"),
            stack |-> StackOf("API rate limit exceeded"),
            rateLimit |-> Obj([limit |-> Num(50), remaining |-> Num(0),
                               reset |-> Num(NowSec + 900)])])
ExtErrs ==
  {NewError("Network connection failed"),
   RateLimitFailure,
   Obj([code |-> Num(429), message |-> Str("Too many requests"),
        rateLimit |-> Obj([limit |-> Num(50), remaining |-> Num(0)])]),
   Str("Simple string error"),
   Null}

\* values an external call can resolve with (undefined: a malformed response)
Tweet1 == Obj([id |-> Str("111"), text |-> Str("first"),
               created_at |-> Str("2024-01-01T00:00:00.000Z")])
Tweet2 == Obj([id |-> Str("222"), text |-> Str("second"), author_id |-> Str("42")])
TimelineResponses ==
  {Obj([data |-> Obj([data |-> items])]) :
     items \in {Undef, Null, Arr(<<>>), Arr(<<Tweet1, Tweet2>>)}}
  \cup {Undef}
UserData ==
  Obj([id |-> Str("123456789"), username |-> Str("testuser"), name |-> Str("Test User"),
       description |-> Str("bio"), verified |-> Bool(FALSE),
       public_metrics |-> Obj([followers_count |-> Num(10), following_count |-> Num(20),
                               tweet_count |-> Num(30), listed_count |-> Num(1),
                               like_count |-> Num(7)]),
       profile_image_url |-> Str("https://example.com/a.png")])
UserResponses == {Obj([data |-> UserData]), Obj([data |-> Null]), Undef}
MeResponses ==
  {Obj([data |-> Obj([id |-> Str("me123")])]), Obj([data |-> Obj([id |-> Str("me456")])]),
   Undef}
AckResponses == {Obj([data |-> Obj([done |-> Bool(TRUE)])]), Undef}
MediaIds == {Str("media123")}
TweetResponses(text) ==
  {Obj([data |-> Obj([id |-> Str("1234567890"), text |-> text])]), Undef}

\* the settled outcomes of an external call
Outcomes(responses) == {Return(v) : v \in responses} \cup {Throw(e) : e \in ExtErrs}

\* the invocation after issuing the external call fn(args) and awaiting it
Issue(i, fn, args) ==
  [i EXCEPT !.pc = "await",
            !.calls = Append(@, [fn |-> fn, args |-> args, out |-> NoRet])]

\* the invocation after its pending call settled with out
Settle(i, out) == [i EXCEPT !.calls[Len(i.calls)].out = out]

Pending(p, tool, fn) ==
  /\ inv[p].tool = tool
  /\ inv[p].pc = "await"
  /\ inv[p].calls[Len(inv[p].calls)].fn = fn

\* execute suspends at an await
Await(p, i) ==
  /\ inv' = [inv EXCEPT ![p] = i]
  /\ UNCHANGED <<now, error, customMessage, call, ret, log, server>>

\* execute returns a success envelope
Succeed(p, i, envelope) ==
  /\ inv' = [inv EXCEPT ![p] = [i EXCEPT !.pc = "done", !.result = Return(envelope)]]
  /\ UNCHANGED <<now, error, customMessage, call, ret, log, server>>

\* catch (error) { return createErrorResponse(error, prefix); }
Catch(p, i, e, prefix) ==
  \E bytes \in RandomBytes :
    \E r \in {createErrorResponse(e, Str(prefix), now, generateErrorId(bytes))} :
       /\ inv' = [inv EXCEPT ![p] = [i EXCEPT !.pc = "done", !.result = r.out]]
       /\ error' = e
       /\ customMessage' = Str(prefix)
       /\ call' = "createErrorResponse"
       /\ ret' = r.out
       /\ log' = log \o r.log
       /\ UNCHANGED <<now, server>>

\* { content: [{ type: "text", text: JSON.stringify(result, null, 2) }] }
TextOnly(result) == [content |-> TextResult(result)]
\* the same with structuredContent: result
WithStructured(result) == [content |-> TextResult(result), structuredContent |-> result]

\* tweets.map((t) => ({ id: t.id, text: t.text, created_at: t.created_at }))
MapTweets(items) ==
  Arr([k \in 1..Len(items.a) |->
         Obj([id |-> Get(items.a[k], "id"),
              text |-> Get(items.a[k], "text"),
              created_at |-> Get(items.a[k], "created_at")])])

\* variant that passes the requested count on without the cap
MaxResults_NoCap(count) == IF count = Undef THEN Num(10) ELSE count

\* Math.min(count, 100) with the default count = 10
MaxResults(count) == Num(Min((IF count = Undef THEN Num(10) ELSE count).n, 100))

(*************************** input schemas *********************************)
\* zod schemas: a kind, whether undefined is accepted, and the checks in order
ZString == [kind |-> "string", optional |-> FALSE, checks |-> <<>>]
ZNumber == [kind |-> "number", optional |-> FALSE, checks |-> <<>>]
ZCheck(schema, c, n) == [schema EXCEPT !.checks = Append(@, [c |-> c, n |-> n])]
ZOptional(schema) == [schema EXCEPT !.optional = TRUE]

\* s.trim() for strings padded with spaces
Trim(str) ==
  IF \A i \in 1..Len(str) : CharAt(str, i) = " " THEN ""
  ELSE SubSeq(str, CHOOSE i \in 1..Len(str) :
                     CharAt(str, i) # " " /\ \A j \in 1..(i - 1) : CharAt(str, j) = " ",
              CHOOSE i \in 1..Len(str) :
                     CharAt(str, i) # " " /\ \A j \in (i + 1)..Len(str) : CharAt(str, j) = " ")

\* /^[A-Za-z0-9_]{1,15}$/
UsernameChars == UpperChars \o LowerChars \o "0123456789_"
MatchesUsername(str) ==
  /\ Len(str) \in 1..15
  /\ \A i \in 1..Len(str) : \E j \in 1..Len(UsernameChars) : CharAt(UsernameChars, j) = CharAt(str, i)

\* the value the schema hands on: trimmed when the schema trims
ZParse(schema, v) ==
  IF v.t = "string" /\ \E k \in 1..Len(schema.checks) : schema.checks[k].c = "trim"
  THEN Str(Trim(v.s)) ELSE v

ZCheckOK(check, w) ==
  CASE check.c = "int" -> TRUE   \* every modelled number is an integer
    [] check.c = "trim" -> TRUE
    [] check.c = "regex" -> MatchesUsername(w.s)
    [] check.c = "min" -> IF w.t = "string" THEN Len(w.s) >= check.n ELSE w.n >= check.n
    [] check.c = "max" -> IF w.t = "string" THEN Len(w.s) <= check.n ELSE w.n <= check.n

\* schema.safeParse(v).success
ZAccepts(schema, v) ==
  IF v = Undef THEN schema.optional
  ELSE /\ v.t = schema.kind
       /\ \A k \in 1..Len(schema.checks) : ZCheckOK(schema.checks[k], ZParse(schema, v))

\* the parameters of each tool class
Parameters(class) ==
  CASE class = "PostTweetTool" ->
         [text |-> ZCheck(ZCheck(ZCheck(ZString, "trim", 0), "min", 1), "max", 280),
          image_path |-> ZOptional(ZString),
          video_path |-> ZOptional(ZString)]
    [] class = "GetHomeTimelineTool" ->
         [count |-> ZOptional(ZCheck(ZCheck(ZCheck(ZNumber, "int", 0), "min", 1), "max", 100))]
    [] class = "GetUserTweetsTool" ->
         [username |-> ZString, count |-> ZOptional(ZNumber)]
    [] class = "SearchTweetsTool" ->
         [query |-> ZString, count |-> ZOptional(ZNumber)]
    [] class = "GetUserInfoTool" -> [username |-> ZCheck(ZString, "regex", 0)]
    [] class = "LikeTweetTool" -> [tweet_id |-> ZString]
    [] class = "RetweetTool" -> [tweet_id |-> ZString]

ToolName(class) ==
  CASE class = "PostTweetTool" -> "post_tweet"
    [] class = "GetHomeTimelineTool" -> "get_home_timeline"
    [] class = "GetUserTweetsTool" -> "get_user_tweets"
    [] class = "SearchTweetsTool" -> "search_tweets"
    [] class = "GetUserInfoTool" -> "get_user_info"
    [] class = "LikeTweetTool" -> "like_tweet"
    [] class = "RetweetTool" -> "retweet"

ToolDescription(class) ==
  CASE class = "PostTweetTool" -> "Posts a tweet on behalf of the authenticated user."
    [] class = "GetHomeTimelineTool" -> "Retrieves the authenticated user's home timeline."
    [] class = "GetUserTweetsTool" -> "Retrieves recent tweets for a specific user."
    [] class = "SearchTweetsTool" -> "Searches recent tweets by keyword."
    [] class = "GetUserInfoTool" -> "Retrieves basic profile information for a given user."
    [] class = "LikeTweetTool" -> "Likes a tweet on behalf of the authenticated user."
    [] class = "RetweetTool" -> "Retweets a post on behalf of the authenticated user."

(*************************** registry **************************************)
\* the capability handle given to registerTools
TwitterClient == "twitterClient"

\* new PostTweetTool(twitterClient), ...: the instances in registration order
ALL_TOOLS(client) ==
  [k \in 1..7 |->
     [class |-> <<"PostTweetTool", "GetHomeTimelineTool", "GetUserTweetsTool",
                  "SearchTweetsTool", "GetUserInfoTool", "LikeTweetTool",
                  "RetweetTool">>[k],
      client |-> client]]

\* the arguments of server.tool(tool.name, tool.description, tool.parameters,
\* tool.execute.bind(tool))
ToolArgs(tool) ==
  [name |-> ToolName(tool.class),
   description |-> ToolDescription(tool.class),
   parameters |-> Parameters(tool.class),
   execute |-> [method |-> "execute", boundTo |-> tool]]

\* a dispatch surface with nothing attached
NewServer == [tools |-> <<>>, registerCalls |-> 0]

\* registerTools may be called this many times on one server
MaxRegisterCalls == 2

\* registerTools(server, twitterClient): attaches every tool in order.  What
\* the surface does with a name it already holds is its own business: it
\* either records the call like any other or throws, which ends registerTools.
RegisterTools ==
  /\ server.registerCalls < MaxRegisterCalls
  /\ \E surfaceThrowsOnDuplicate \in BOOLEAN :
       server' =
         [tools |-> IF server.tools # <<>> /\ surfaceThrowsOnDuplicate
                    THEN server.tools
                    ELSE server.tools \o [k \in 1..7 |-> ToolArgs(ALL_TOOLS(TwitterClient)[k])],
          registerCalls |-> server.registerCalls + 1]
  /\ UNCHANGED <<now, error, customMessage, call, ret, log, inv>>

(*************************** dispatch *************************************)
\* execute is reached through the dispatch surface, or called directly on an
\* instance as the unit tests do
Vias == {"dispatch", "direct"}

\* the entry the surface dispatches name to: the first one attached under it
Attached(name) == \E k \in 1..Len(server.tools) : server.tools[k].name = name
EntryOf(name) ==
  server.tools[CHOOSE k \in 1..Len(server.tools) :
                 /\ server.tools[k].name = name
                 /\ \A j \in 1..(k - 1) : server.tools[j].name # name]

\* validation of the caller's arguments against the declared input schema
Validates(parameters, given) ==
  \A k \in DOMAIN parameters : ZAccepts(parameters[k], given[k])
ParsedArgs(parameters, given) ==
  [k \in DOMAIN given |->
     IF k \in DOMAIN parameters THEN ZParse(parameters[k], given[k]) ELSE Undef]

\* a call of tool by way of via can be made
CanCall(via, tool) == via = "dispatch" => Attached(tool)
\* the surface refuses the call before execute is entered
Refused(via, tool, given) ==
  via = "dispatch" /\ ~Validates(EntryOf(tool).parameters, given)

\* the invocation record of a call of tool with the arguments given
Entered(p, tool, via, given) ==
  [inv[p] EXCEPT !.tool = tool,
                 !.via = via,
                 !.args = IF via = "dispatch" /\ Validates(EntryOf(tool).parameters, given)
                          THEN ParsedArgs(EntryOf(tool).parameters, given)
                          ELSE given]

\* the surface answers with a validation error; execute is not entered
Reject(p, i) ==
  /\ inv' = [inv EXCEPT ![p] = [i EXCEPT !.pc = "rejected"]]
  /\ UNCHANGED <<now, error, customMessage, call, ret, log, server>>

(*************************** post_tweet ************************************)
\* the rethrow of the inner catch around uploadImage / uploadVideo
WrapUploadError(what, e) ==
  LET m == Prop(e, "message")
  IN IF m.st = "throw" THEN m.v
     ELSE NewError("Failed to upload " \o what \o ": " \o String(m.v))

TweetCallArgs(text, mediaId) ==
  IF Truthy(mediaId)
  THEN <<Obj([text |-> text, media |-> Obj([media_ids |-> Arr(<<mediaId>>)])])>>
  ELSE <<text>>

\* the part of execute after the image upload: video upload, then tweet
PostTweetAfterImage(p, i, mediaId) ==
  IF Truthy(i.args.video_path)
  THEN \E st \in FileStats :
         LET up == uploadVideo(i.args.video_path.s, st)
         IN IF up.st = "throw"
            THEN Catch(p, [i EXCEPT !.stat = st], WrapUploadError("video", up.v),
                       "Failed to post tweet")
            ELSE Await(p, Issue([i EXCEPT !.local = mediaId, !.stat = st],
                                 "uploadMedia:video", <<up.v>>))
  ELSE Await(p, Issue([i EXCEPT !.local = mediaId], "tweet",
                      TweetCallArgs(i.args.text, mediaId)))

\* variant without the check that image and video are not both given
PostTweetExecute_NoConflictCheck(p) ==
  /\ inv[p].pc = "idle"
  /\ \E text \in Texts, image_path \in ImagePaths, video_path \in VideoPaths, via \in Vias :
       /\ CanCall(via, "post_tweet")
       /\ LET given == [NoArgs EXCEPT !.text = text, !.image_path = image_path,
                                       !.video_path = video_path]
              i == Entered(p, "post_tweet", via, given)
          IN IF Refused(via, "post_tweet", given) THEN Reject(p, i) ELSE
          IF Truthy(i.args.image_path)
          THEN \E st \in FileStats :
                 LET up == uploadImage(i.args.image_path.s, st)
                 IN IF up.st = "throw"
                    THEN Catch(p, [i EXCEPT !.stat = st], WrapUploadError("image", up.v),
                               "Failed to post tweet")
                    ELSE Await(p, Issue([i EXCEPT !.stat = st], "uploadMedia:image", <<up.v>>))
          ELSE PostTweetAfterImage(p, i, Undef)

PostTweetExecute(p) ==
  /\ inv[p].pc = "idle"
  /\ \E text \in Texts, image_path \in ImagePaths, video_path \in VideoPaths, via \in Vias :
       /\ CanCall(via, "post_tweet")
       /\ LET given == [NoArgs EXCEPT !.text = text, !.image_path = image_path,
                                       !.video_path = video_path]
              i == Entered(p, "post_tweet", via, given)
          IN IF Refused(via, "post_tweet", given) THEN Reject(p, i) ELSE
          IF Truthy(i.args.image_path) /\ Truthy(i.args.video_path)
          THEN Catch(p, i,
                     NewError("Cannot attach both image and video to the same tweet. Please provide only one."),
                     "Failed to post tweet")
          ELSE IF Truthy(i.args.image_path)
          THEN \E st \in FileStats :
                 LET up == uploadImage(i.args.image_path.s, st)
                 IN IF up.st = "throw"
                    THEN Catch(p, [i EXCEPT !.stat = st], WrapUploadError("image", up.v),
                               "Failed to post tweet")
                    ELSE Await(p, Issue([i EXCEPT !.stat = st], "uploadMedia:image", <<up.v>>))
          ELSE PostTweetAfterImage(p, i, Undef)

PostTweetImageUploaded(p) ==
  /\ Pending(p, "post_tweet", "uploadMedia:image")
  /\ \E out \in Outcomes(MediaIds) :
       LET i == Settle(inv[p], out)
       IN IF out.st = "throw"
          THEN Catch(p, i, WrapUploadError("image", out.v), "Failed to post tweet")
          ELSE PostTweetAfterImage(p, i, out.v)

PostTweetVideoUploaded(p) ==
  /\ Pending(p, "post_tweet", "uploadMedia:video")
  /\ \E out \in Outcomes(MediaIds) :
       LET i == Settle(inv[p], out)
       IN IF out.st = "throw"
          THEN Catch(p, i, WrapUploadError("video", out.v), "Failed to post tweet")
          ELSE Await(p, Issue([i EXCEPT !.local = out.v], "tweet",
                              TweetCallArgs(i.args.text, out.v)))

PostTweetTweeted(p) ==
  /\ Pending(p, "post_tweet", "tweet")
  /\ \E out \in Outcomes(TweetResponses(inv[p].args.text)) :
       LET i == Settle(inv[p], out)
           id == Prop2(out.v, "data", "id")
           text == Prop2(out.v, "data", "text")
       IN IF out.st = "throw" THEN Catch(p, i, out.v, "Failed to post tweet")
          ELSE IF id.st = "throw" THEN Catch(p, i, id.v, "Failed to post tweet")
          ELSE Succeed(p, i, WithStructured(Obj([success |-> Bool(TRUE),
                                                 tweet_id |-> id.v,
                                                 text |-> text.v])))


(*************************** get_home_timeline *****************************)
GetHomeTimelineExecute(p) ==
  /\ inv[p].pc = "idle"
  /\ \E count \in Counts, via \in Vias :
       /\ CanCall(via, "get_home_timeline")
       /\ LET given == [NoArgs EXCEPT !.count = count]
              i == Entered(p, "get_home_timeline", via, given)
          IN IF Refused(via, "get_home_timeline", given) THEN Reject(p, i)
             ELSE Await(p, Issue(i, "homeTimeline", <<Obj([max_results |-> MaxResults(i.args.count)])>>))

GetHomeTimelineFetched(p) ==
  /\ Pending(p, "get_home_timeline", "homeTimeline")
  /\ \E out \in Outcomes(TimelineResponses) :
       LET i == Settle(inv[p], out)
           data == Prop2(out.v, "data", "data")
           tweets == IF Truthy(data.v) THEN data.v ELSE Arr(<<>>)
       IN IF out.st = "throw" THEN Catch(p, i, out.v, "Failed to fetch home timeline")
          ELSE IF data.st = "throw" THEN Catch(p, i, data.v, "Failed to fetch home timeline")
          ELSE Succeed(p, i, WithStructured(Obj([success |-> Bool(TRUE),
                                                 count |-> Num(Len(tweets.a)),
                                                 tweets |-> MapTweets(tweets)])))

(*************************** get_user_tweets *******************************)
\* variant without the "|| 0" default of count
CountAndTweets_NoDefault(data) ==
  IF data.t \in {"undefined", "null"}
  THEN [count |-> Undef, tweets |-> Arr(<<>>)]
  ELSE [count |-> Num(Len(data.a)), tweets |-> MapTweets(data)]

\* the payload fields count and tweets of get_user_tweets and search_tweets:
\* data?.length || 0 and data?.map(...) || []
CountAndTweets(data) ==
  IF data.t \in {"undefined", "null"}
  THEN [count |-> Num(0), tweets |-> Arr(<<>>)]
  ELSE [count |-> Num(Len(data.a)), tweets |-> MapTweets(data)]

GetUserTweetsExecute(p) ==
  /\ inv[p].pc = "idle"
  /\ \E username \in Usernames, count \in Counts, via \in Vias :
       /\ CanCall(via, "get_user_tweets")
       /\ LET given == [NoArgs EXCEPT !.username = username, !.count = count]
              i == Entered(p, "get_user_tweets", via, given)
          IN IF Refused(via, "get_user_tweets", given) THEN Reject(p, i)
             ELSE Await(p, Issue(i, "userByUsername", <<i.args.username>>))

\* variant without the not-found check on user.data
GetUserTweetsUserResolved_NoNotFound(p) ==
  /\ Pending(p, "get_user_tweets", "userByUsername")
  /\ \E out \in Outcomes(UserResponses) :
       LET i == Settle(inv[p], out)
           id == Prop2(out.v, "data", "id")
       IN IF out.st = "throw" THEN Catch(p, i, out.v, "Failed to fetch user tweets")
          ELSE IF id.st = "throw" THEN Catch(p, i, id.v, "Failed to fetch user tweets")
          ELSE Await(p, Issue([i EXCEPT !.local = out.v.f.data], "userTimeline",
                              <<id.v, Obj([max_results |-> MaxResults(i.args.count)])>>))

GetUserTweetsUserResolved(p) ==
  /\ Pending(p, "get_user_tweets", "userByUsername")
  /\ \E out \in Outcomes(UserResponses) :
       LET i == Settle(inv[p], out)
           data == Prop(out.v, "data")
       IN IF out.st = "throw" THEN Catch(p, i, out.v, "Failed to fetch user tweets")
          ELSE IF data.st = "throw" THEN Catch(p, i, data.v, "Failed to fetch user tweets")
          ELSE IF ~Truthy(data.v)
            THEN Catch(p, i, NewError("User @" \o i.args.username.s \o " was not found"),
                       "Failed to fetch user tweets")
          ELSE Await(p, Issue([i EXCEPT !.local = data.v], "userTimeline",
                              <<Get(data.v, "id"),
                                Obj([max_results |-> MaxResults(i.args.count)])>>))

GetUserTweetsFetched(p) ==
  /\ Pending(p, "get_user_tweets", "userTimeline")
  /\ \E out \in Outcomes(TimelineResponses) :
       LET i == Settle(inv[p], out)
           data == Prop2(out.v, "data", "data")
           ct == CountAndTweets(data.v)
       IN IF out.st = "throw" THEN Catch(p, i, out.v, "Failed to fetch user tweets")
          ELSE IF data.st = "throw" THEN Catch(p, i, data.v, "Failed to fetch user tweets")
          ELSE Succeed(p, i, WithStructured(Obj([success |-> Bool(TRUE),
                                                 username |-> i.args.username,
                                                 count |-> ct.count,
                                                 tweets |-> ct.tweets])))

(*************************** search_tweets *********************************)
SearchTweetsExecute(p) ==
  /\ inv[p].pc = "idle"
  /\ \E query \in Queries, count \in Counts, via \in Vias :
       /\ CanCall(via, "search_tweets")
       /\ LET given == [NoArgs EXCEPT !.query = query, !.count = count]
              i == Entered(p, "search_tweets", via, given)
          IN IF Refused(via, "search_tweets", given) THEN Reject(p, i)
             ELSE Await(p, Issue(i, "search", <<i.args.query,
                                           Obj([max_results |-> MaxResults(i.args.count)])>>))

SearchTweetsFetched(p) ==
  /\ Pending(p, "search_tweets", "search")
  /\ \E out \in Outcomes(TimelineResponses) :
       LET i == Settle(inv[p], out)
           data == Prop2(out.v, "data", "data")
           ct == CountAndTweets(data.v)
       IN IF out.st = "throw" THEN Catch(p, i, out.v, "Failed to search tweets")
          ELSE IF data.st = "throw" THEN Catch(p, i, data.v, "Failed to search tweets")
          ELSE Succeed(p, i, TextOnly(Obj([success |-> Bool(TRUE),
                                           query |-> i.args.query,
                                           count |-> ct.count,
                                           tweets |-> ct.tweets])))

(*************************** get_user_info *********************************)
UserFields ==
  Obj("user.fields" :> Arr(<<Str("created_at"), Str("description"), Str("public_metrics"),
                             Str("verified"), Str("location")>>))

GetUserInfoExecute(p) ==
  /\ inv[p].pc = "idle"
  /\ \E username \in Usernames, via \in Vias :
       /\ CanCall(via, "get_user_info")
       /\ LET given == [NoArgs EXCEPT !.username = username]
              i == Entered(p, "get_user_info", via, given)
          IN IF Refused(via, "get_user_info", given) THEN Reject(p, i)
             ELSE Await(p, Issue(i, "userByUsername", <<i.args.username, UserFields>>))

GetUserInfoResolved(p) ==
  /\ Pending(p, "get_user_info", "userByUsername")
  /\ \E out \in Outcomes(UserResponses) :
       LET i == Settle(inv[p], out)
           data == Prop(out.v, "data")
           u == data.v
       IN IF out.st = "throw" THEN Catch(p, i, out.v, "Failed to fetch user info")
          ELSE IF data.st = "throw" THEN Catch(p, i, data.v, "Failed to fetch user info")
          ELSE IF ~Truthy(u)
            THEN Catch(p, i, NewError("User @" \o i.args.username.s \o " was not found"),
                       "Failed to fetch user info")
          ELSE Succeed(p, i, WithStructured(Obj(
                 [success |-> Bool(TRUE),
                  user |-> Obj([id |-> Get(u, "id"),
                                username |-> Get(u, "username"),
                                name |-> Get(u, "name"),
                                description |-> Get(u, "description"),
                                created_at |-> Get(u, "created_at"),
                                verified |-> Get(u, "verified"),
                                location |-> Get(u, "location"),
                                metrics |-> Get(u, "public_metrics")])])))

(*************************** like_tweet / retweet **************************)
LikeTweetExecute(p) ==
  /\ inv[p].pc = "idle"
  /\ \E tweet_id \in TweetIds, via \in Vias :
       /\ CanCall(via, "like_tweet")
       /\ LET given == [NoArgs EXCEPT !.tweet_id = tweet_id]
              i == Entered(p, "like_tweet", via, given)
          IN IF Refused(via, "like_tweet", given) THEN Reject(p, i)
             ELSE Await(p, Issue(i, "me", <<>>))

\* variant that keeps the resolved user in a field shared by all invocations
LikeTweetMeResolved_SharedUser(p) ==
  /\ Pending(p, "like_tweet", "me")
  /\ \E out \in Outcomes(MeResponses) :
       LET i == Settle(inv[p], out)
           id == Prop2(out.v, "data", "id")
       IN IF out.st = "throw" THEN Catch(p, i, out.v, "Failed to like tweet")
          ELSE IF id.st = "throw" THEN Catch(p, i, id.v, "Failed to like tweet")
          ELSE \E u \in {out.v} \cup {inv[q].local : q \in {r \in DOMAIN inv : Has(inv[r].local, "data")}} :
                 Await(p, Issue([i EXCEPT !.local = u], "like",
                                <<Get(Get(u, "data"), "id"), i.args.tweet_id>>))

LikeTweetMeResolved(p) ==
  /\ Pending(p, "like_tweet", "me")
  /\ \E out \in Outcomes(MeResponses) :
       LET i == Settle(inv[p], out)
           id == Prop2(out.v, "data", "id")
       IN IF out.st = "throw" THEN Catch(p, i, out.v, "Failed to like tweet")
          ELSE IF id.st = "throw" THEN Catch(p, i, id.v, "Failed to like tweet")
          ELSE Await(p, Issue([i EXCEPT !.local = out.v], "like", <<id.v, i.args.tweet_id>>))

LikeTweetLiked(p) ==
  /\ Pending(p, "like_tweet", "like")
  /\ \E out \in Outcomes(AckResponses) :
       LET i == Settle(inv[p], out)
       IN IF out.st = "throw" THEN Catch(p, i, out.v, "Failed to like tweet")
          ELSE Succeed(p, i, WithStructured(Obj(
                 [success |-> Bool(TRUE),
                  message |-> Str("Liked tweet " \o String(i.args.tweet_id) \o ".")])))

RetweetExecute(p) ==
  /\ inv[p].pc = "idle"
  /\ \E tweet_id \in TweetIds, via \in Vias :
       /\ CanCall(via, "retweet")
       /\ LET given == [NoArgs EXCEPT !.tweet_id = tweet_id]
              i == Entered(p, "retweet", via, given)
          IN IF Refused(via, "retweet", given) THEN Reject(p, i)
             ELSE Await(p, Issue(i, "me", <<>>))

RetweetMeResolved(p) ==
  /\ Pending(p, "retweet", "me")
  /\ \E out \in Outcomes(MeResponses) :
       LET i == Settle(inv[p], out)
           id == Prop2(out.v, "data", "id")
       IN IF out.st = "throw" THEN Catch(p, i, out.v, "Failed to retweet")
          ELSE IF id.st = "throw" THEN Catch(p, i, id.v, "Failed to retweet")
          ELSE Await(p, Issue([i EXCEPT !.local = out.v], "retweet", <<id.v, i.args.tweet_id>>))

RetweetRetweeted(p) ==
  /\ Pending(p, "retweet", "retweet")
  /\ \E out \in Outcomes(AckResponses) :
       LET i == Settle(inv[p], out)
       IN IF out.st = "throw" THEN Catch(p, i, out.v, "Failed to retweet")
          ELSE Succeed(p, i, TextOnly(Obj(
                 [success |-> Bool(TRUE),
                  message |-> Str("Retweeted tweet " \o String(i.args.tweet_id) \o ".")])))

(*************************** specification *********************************)
Init ==
  /\ now \in Nows
  /\ error = Undef
  /\ customMessage = Undef
  /\ call = "none"
  /\ ret = NoRet
  /\ log = <<>>
  /\ inv = [p \in Procs |-> IdleInv]
  /\ server = NewServer

Next ==
  \/ RegisterTools
  \/ \E p \in DOMAIN inv : PostTweetExecute(p)
  \/ \E p \in DOMAIN inv : PostTweetImageUploaded(p)
  \/ \E p \in DOMAIN inv : PostTweetVideoUploaded(p)
  \/ \E p \in DOMAIN inv : PostTweetTweeted(p)
  \/ \E p \in DOMAIN inv : GetHomeTimelineExecute(p)
  \/ \E p \in DOMAIN inv : GetHomeTimelineFetched(p)
  \/ \E p \in DOMAIN inv : GetUserTweetsExecute(p)
  \/ \E p \in DOMAIN inv : GetUserTweetsUserResolved(p)
  \/ \E p \in DOMAIN inv : GetUserTweetsFetched(p)
  \/ \E p \in DOMAIN inv : SearchTweetsExecute(p)
  \/ \E p \in DOMAIN inv : SearchTweetsFetched(p)
  \/ \E p \in DOMAIN inv : GetUserInfoExecute(p)
  \/ \E p \in DOMAIN inv : GetUserInfoResolved(p)
  \/ \E p \in DOMAIN inv : LikeTweetExecute(p)
  \/ \E p \in DOMAIN inv : LikeTweetMeResolved(p)
  \/ \E p \in DOMAIN inv : LikeTweetLiked(p)
  \/ \E p \in DOMAIN inv : RetweetExecute(p)
  \/ \E p \in DOMAIN inv : RetweetMeResolved(p)
  \/ \E p \in DOMAIN inv : RetweetRetweeted(p)

Spec == Init /\ [][Next]_vars

(***************************************************************************)
(* Concurrent invocations: "alone" runs one execute from start to finish   *)
(* with nothing else in flight; afterwards "p1" and "p2" run their         *)
(* execute calls interleaved at the awaits.                                *)
(***************************************************************************)
ConcurrentProcs == {"alone", "p1", "p2"}

\* the event loop runs p: the reference invocation first, the others after it
Turn(p) == p = "alone" \/ inv["alone"].pc = "done"

\* the arguments and the outcomes the environment supplies to these runs
PairOutcomes ==
  {NoRet}
  \cup {Return(v) : v \in MeResponses \cup {Obj([data |-> Obj([done |-> Bool(TRUE)])]),
                                            Obj([data |-> UserData])}}
  \cup {Throw(e) : e \in {NewError("Network connection failed"), RateLimitFailure}}
PairBound ==
  \A p \in DOMAIN inv :
    /\ inv[p].args.tweet_id \in {Undef, Str("1234567890")}
    /\ \A k \in 1..Len(inv[p].calls) : inv[p].calls[k].out \in PairOutcomes

InitPair ==
  /\ now = NowBase
  /\ error = Undef
  /\ customMessage = Undef
  /\ call = "none"
  /\ ret = NoRet
  /\ log = <<>>
  /\ inv = [p \in ConcurrentProcs |-> IdleInv]
  /\ server = NewServer

NextPair ==
  \/ \E p \in DOMAIN inv : Turn(p) /\ LikeTweetExecute(p) /\ PairBound'
  \/ \E p \in DOMAIN inv : Turn(p) /\ LikeTweetMeResolved(p) /\ PairBound'
  \/ \E p \in DOMAIN inv : Turn(p) /\ LikeTweetLiked(p) /\ PairBound'
  \/ \E p \in DOMAIN inv : Turn(p) /\ RetweetExecute(p) /\ PairBound'
  \/ \E p \in DOMAIN inv : Turn(p) /\ RetweetMeResolved(p) /\ PairBound'
  \/ \E p \in DOMAIN inv : Turn(p) /\ RetweetRetweeted(p) /\ PairBound'
  \/ \E p \in DOMAIN inv : Turn(p) /\ GetUserInfoExecute(p) /\ PairBound'
  \/ \E p \in DOMAIN inv : Turn(p) /\ GetUserInfoResolved(p) /\ PairBound'

SpecPair == InitPair /\ [][NextPair]_vars

(***************************************************************************)
(* Properties of the classifier (checked under SpecErr)                    *)
(***************************************************************************)
\* the object encoded by the text content of a returned envelope
DataOf(r) == r.v.content[1].text

RECURSIVE StringLeaves(_)
StringLeaves(v) ==
  CASE v.t = "string" -> {v.s}
    [] v.t = "object" -> UNION {StringLeaves(v.f[k]) : k \in DOMAIN v.f}
    [] v.t = "array" -> UNION {StringLeaves(v.a[i]) : i \in 1..Len(v.a)}
    [] OTHER -> {}

RECURSIVE KeysOf(_)
KeysOf(v) ==
  CASE v.t = "object" -> DOMAIN v.f \cup UNION {KeysOf(v.f[k]) : k \in DOMAIN v.f}
    [] v.t = "array" -> UNION {KeysOf(v.a[i]) : i \in 1..Len(v.a)}
    [] OTHER -> {}

Returned(fn) == call = fn /\ ret.st = "return"

\* C1: isRateLimitError(err) is true exactly when err is a non-null object
\* with a numeric code field and (code is 429 or rateLimitError is exactly
\* true); every other value gives false.
C1_RateLimitIff ==
  call = "isRateLimitError" =>
    /\ ret.st = "return"
    /\ ret.v \in {Bool(TRUE), Bool(FALSE)}
    /\ (ret.v = Bool(TRUE)) <=>
         /\ error.t = "object"
         /\ "code" \in DOMAIN error.f
         /\ error.f.code.t \in {"number", "nan"}
         /\ \/ error.f.code = Num(429)
            \/ /\ "rateLimitError" \in DOMAIN error.f
               /\ error.f.rateLimitError = Bool(TRUE)

C1_Witness ==
  /\ call = "isRateLimitError"
  /\ ret.v = Bool(TRUE)
  /\ error.t = "object"
  /\ error.f.code = Num(400)

\* C2: for a non-null, non-Error object without a string message (no message
\* key, or a message that is not a string) handleError returns the literal
\* "An unexpected error occurred".
C2_ObjectFallback ==
  (/\ call = "handleError"
   /\ error.t = "object"
   /\ ~error.isError
   /\ ~("message" \in DOMAIN error.f /\ error.f.message.t = "string"))
  => ret.v.f.message = Str("An unexpected error occurred")

\* C3: handleError takes the message of a native Error instance, else the
\* string-typed message field of an object, and for a primitive the plain
\* string conversion of the value.
C3_MessageOrder ==
  call = "handleError" =>
    LET m == ret.v.f.message
    IN /\ ret.st = "return"
       /\ (error.t = "object" /\ error.isError) => m = error.f.message
       /\ (/\ error.t = "object"
           /\ ~error.isError
           /\ "message" \in DOMAIN error.f
           /\ error.f.message.t = "string") => m = error.f.message
       /\ error.t = "string" => m = error
       /\ error = Num(404) => m = Str("404")
       /\ error = Bool(TRUE) => m = Str("true")
       /\ error = Null => m = Str("null")
       /\ error = Undef => m = Str("undefined")

C3_Witness ==
  /\ call = "handleError"
  /\ error = Null
  /\ ret.v.f.message = Str("null")

C5_RateLimitEnvelope ==
  (call = "createErrorResponse" /\ isRateLimitError(error)) =>
    /\ ret.st = "return"
    /\ LET data == DataOf(ret)
       IN /\ data.f.success = Bool(FALSE)
          /\ Get(data, "error_type") = Str("RATE_LIMIT_EXCEEDED")
          /\ data.f.error = (IF customMessage \notin {Undef, Str("")}
                             THEN customMessage
                             ELSE Str("Twitter API rate limit reached"))
          /\ Get(Get(data, "details"), "original_error")
               = Str(handleError(error, data.f.error_id.s).message)

\* C6: in the rate-limit envelope details.rate_limit and details.message are
\* both present exactly when the error carries rate-limit metadata, copy its
\* values, and the message is "Please retry in N minute(s)." for N > 0 and
\* "Rate limit resets momentarily" for N = 0.
C6_RateLimitDetails ==
  (Returned("createErrorResponse") /\ isRateLimitError(error)) =>
    LET details == DataOf(ret).f.details
        hasMeta == Has(error, "rateLimit") /\ error.f.rateLimit.t = "object"
    IN /\ Has(details, "rate_limit") <=> hasMeta
       /\ Has(details, "message") <=> hasMeta
       /\ hasMeta =>
            LET rl == details.f.rate_limit
                n == rl.f.reset_in_minutes.n
            IN /\ DOMAIN rl.f = {"limit", "remaining", "reset_at", "reset_in_minutes"}
               /\ rl.f.limit = error.f.rateLimit.f.limit
               /\ rl.f.remaining = error.f.rateLimit.f.remaining
               /\ n >= 0
               /\ n > 0 => details.f.message
                             = Str("Please retry in " \o ToString(n) \o " minute(s).")
               /\ n = 0 => details.f.message = Str("Rate limit resets momentarily")

C6_Witness ==
  /\ Returned("createErrorResponse")
  /\ isRateLimitError(error)
  /\ Has(DataOf(ret).f.details, "rate_limit")
  /\ DataOf(ret).f.details.f.rate_limit.f.reset_in_minutes = Num(0)
  /\ DataOf(ret).f.details.f.message = Str("Rate limit resets momentarily")

\* C7: for every error with isRateLimitError false, createErrorResponse
\* returns the generic envelope: success false, an error_id, error equal to
\* "<prefix>: <sanitized message>" with a prefix and to the sanitized message
\* without one, and neither error_type nor details.
C7_GenericEnvelope ==
  (call = "createErrorResponse" /\ ~isRateLimitError(error)) =>
    /\ ret.st = "return"
    /\ ret.v.isError = TRUE
    /\ LET data == DataOf(ret)
           m == handleError(error, data.f.error_id.s).message
       IN /\ data.f.success = Bool(FALSE)
          /\ data.f.error_id.t = "string"
          /\ Len(data.f.error_id.s) = 8
          /\ data.f.error = (IF customMessage \notin {Undef, Str("")}
                             THEN Str(customMessage.s \o ": " \o m)
                             ELSE Str(m))
          /\ ~Has(data, "error_type")
          /\ ~Has(data, "details")

C7_Witness ==
  /\ Returned("createErrorResponse")
  /\ ~isRateLimitError(error)
  /\ customMessage = Str("Failed to post tweet")
  /\ DataOf(ret).f.error = Str("Failed to post tweet: Test error")

\* C8: resetInMinutes = max(0, ceil((reset*1000 - now_ms)/60000)): never
\* negative, rounded up to the next whole minute, 0 when the reset time is not
\* in the future; reset = now + 900s gives a value in (0, 15].
C8_ResetInMinutes ==
  (Returned("extractRateLimitInfo") /\ ret.v # Undef) =>
    LET n == ret.v.f.resetInMinutes.n
        d == error.f.rateLimit.f.reset.n * 1000 - now
    IN /\ n >= 0
       /\ d <= 0 => n = 0
       /\ d > 0 => (60000 * (n - 1) < d /\ d <= 60000 * n)
       /\ (d > 0 /\ d <= 900000) => (n > 0 /\ n <= 15)

C8_Witness ==
  /\ Returned("extractRateLimitInfo")
  /\ ret.v # Undef
  /\ error.f.rateLimit.f.reset.n * 1000 - now = 899999
  /\ ret.v.f.resetInMinutes = Num(15)

(***************************************************************************)
(* Properties of the tool invocations (checked under Spec)                 *)
(***************************************************************************)
PrefixOf(tool) ==
  CASE tool = "post_tweet" -> "Failed to post tweet"
    [] tool = "get_home_timeline" -> "Failed to fetch home timeline"
    [] tool = "get_user_tweets" -> "Failed to fetch user tweets"
    [] tool = "search_tweets" -> "Failed to search tweets"
    [] tool = "get_user_info" -> "Failed to fetch user info"
    [] tool = "like_tweet" -> "Failed to like tweet"
    [] tool = "retweet" -> "Failed to retweet"

Done(p) == inv[p].pc = "done"
LastCall(p) == inv[p].calls[Len(inv[p].calls)]

\* C9: every execute invocation settles with exactly one envelope and never
\* rejects: a success envelope (success true, isError not set) or a failure
\* envelope (success false, isError true), whatever the external calls
\* return or throw.
C9_AlwaysEnvelope ==
  \A p \in DOMAIN inv :
    Done(p) =>
      /\ inv[p].result.st = "return"
      /\ LET env == inv[p].result.v
             data == env.content[1].text
         IN \/ data.f.success = Bool(TRUE) /\ "isError" \notin DOMAIN env
            \/ /\ data.f.success = Bool(FALSE)
               /\ "isError" \in DOMAIN env
               /\ env.isError = TRUE

\* C10: a failure thrown by an external call is handed to createErrorResponse
\* unmodified with the operation's prefix, so a rate-limit failure of any
\* external call (the media upload of post_tweet included) gives an envelope
\* with error_type RATE_LIMIT_EXCEEDED.
C10_FailureHandedUnmodified ==
  \A p \in DOMAIN inv :
    (Done(p) /\ inv[p].calls # <<>> /\ LastCall(p).out.st = "throw") =>
      /\ call = "createErrorResponse"
      /\ error = LastCall(p).out.v
      /\ customMessage = Str(PrefixOf(inv[p].tool))
      /\ (isRateLimitError(LastCall(p).out.v) /\ inv[p].result.st = "return") =>
           Get(inv[p].result.v.content[1].text, "error_type") = Str("RATE_LIMIT_EXCEEDED")

\* the invocation returned a failure envelope whose error contains its prefix
FailedWithPrefix(p) ==
  /\ Done(p)
  /\ inv[p].result.st = "return"
  /\ "isError" \in DOMAIN inv[p].result.v
  /\ inv[p].result.v.isError = TRUE
  /\ Get(DataOf(inv[p].result), "success") = Bool(FALSE)
  /\ Contains(Get(DataOf(inv[p].result), "error").s, PrefixOf(inv[p].tool))

\* the external call that performs the action of like_tweet / retweet
ActionCallOf(tool) == IF tool = "like_tweet" THEN "like" ELSE "retweet"

\* C11: in like_tweet and retweet the identity call me() is issued first; the
\* action call (like / retweet) is issued only after me() has resolved, with
\* the resolved user id and the requested tweet id in that order; when me()
\* fails with any thrown value the action call is never issued and a failure
\* envelope with the operation's prefix is returned.
C11_IdentityThenAction ==
  \A p \in DOMAIN inv :
    inv[p].tool \in {"like_tweet", "retweet"} =>
      LET calls == inv[p].calls
      IN /\ Len(calls) <= 2
         /\ calls # <<>> => calls[1].fn = "me"
         /\ Len(calls) = 2 =>
              /\ calls[1].out.st = "return"
              /\ calls[2].fn = ActionCallOf(inv[p].tool)
              /\ calls[2].args = <<calls[1].out.v.f.data.f.id, inv[p].args.tweet_id>>
         /\ (calls # <<>> /\ calls[1].out.st = "throw") =>
              /\ Len(calls) = 1
              /\ FailedWithPrefix(p)

\* execute of post_tweet was entered with both image_path and video_path
BothAttachments(p) ==
  /\ inv[p].tool = "post_tweet"
  /\ inv[p].pc # "rejected"
  /\ Truthy(inv[p].args.image_path)
  /\ Truthy(inv[p].args.video_path)

\* C12: post_tweet invoked with both image_path and video_path returns a
\* failure envelope whose error contains "Cannot attach both image and video",
\* and no image upload, video upload or publish call is issued in that
\* invocation.
C12_BothAttachmentsRejected ==
  \A p \in DOMAIN inv :
    BothAttachments(p) =>
      /\ inv[p].calls = <<>>
      /\ FailedWithPrefix(p)
      /\ Contains(Get(DataOf(inv[p].result), "error").s, "Cannot attach both image and video")

C12_Witness ==
  \E p \in DOMAIN inv :
    /\ BothAttachments(p)
    /\ Done(p)
    /\ Get(DataOf(inv[p].result), "error")
         = Str("Failed to post tweet: Cannot attach both image and video to the same tweet. Please provide only one.")

\* the lookup by handle of p resolved with null data
LookupFoundNobody(p) ==
  /\ inv[p].tool \in {"get_user_tweets", "get_user_info"}
  /\ inv[p].calls # <<>>
  /\ inv[p].calls[1].fn = "userByUsername"
  /\ inv[p].calls[1].out = Return(Obj([data |-> Null]))

FetchCallOf(tool) ==
  CASE tool = "get_home_timeline" -> "homeTimeline"
    [] tool = "get_user_tweets" -> "userTimeline"
    [] tool = "search_tweets" -> "search"
    [] OTHER -> "none"

\* the max_results values p has passed to its external fetch
MaxResultsPassed(p) ==
  {Get(inv[p].calls[k].args[Len(inv[p].calls[k].args)], "max_results") :
     k \in {j \in 1..Len(inv[p].calls) : inv[p].calls[j].fn = FetchCallOf(inv[p].tool)}}

\* C14: for get_home_timeline, get_user_tweets and search_tweets and every
\* count c, the max_results passed to the external fetch is min(c, 100) when
\* c is supplied and positive, and 10 when count is omitted.
C14_EffectiveCount ==
  \A p \in DOMAIN inv :
    \A mr \in MaxResultsPassed(p) :
      LET c == inv[p].args.count
      IN /\ c = Undef => mr = Num(10)
         /\ (c # Undef /\ c.n > 0) => mr = Num(IF c.n < 100 THEN c.n ELSE 100)

C14_Witness ==
  \E p \in DOMAIN inv :
    /\ inv[p].tool = "get_user_tweets"
    /\ inv[p].args.count = Num(150)
    /\ MaxResultsPassed(p) = {Num(100)}

\* p is a call of a count-accepting operation through the dispatch surface
\* with a count supplied
DispatchedWithCount(p) ==
  /\ inv[p].via = "dispatch"
  /\ FetchCallOf(inv[p].tool) # "none"
  /\ inv[p].args.count # Undef

\* C15: for each count-accepting operation, a call through the dispatch
\* surface (validation against the declared input schema, then execute) with
\* count greater than 100 is not rejected: it passes validation, enters
\* execute and issues the external fetch with max_results = 100.
C15_LargeCountCapped ==
  \A p \in DOMAIN inv :
    (DispatchedWithCount(p) /\ inv[p].args.count.n > 100) =>
      /\ inv[p].pc # "rejected"
      /\ \A mr \in MaxResultsPassed(p) : mr = Num(100)

\* C16: for each count-accepting operation, a call with count less than or
\* equal to 0 is rejected by validation against the declared input schema,
\* so no external fetch is issued with max_results less than or equal to 0
\* and the value is never silently raised to a positive one.
C16_NonPositiveCountRejected ==
  \A p \in DOMAIN inv :
    (DispatchedWithCount(p) /\ inv[p].args.count.n <= 0) =>
      /\ inv[p].pc = "rejected"
      /\ inv[p].calls = <<>>

\* the external fetch of p resolved with a response whose items collection is items
FetchResolvedWith(p, items) ==
  /\ FetchCallOf(inv[p].tool) # "none"
  /\ inv[p].calls # <<>>
  /\ LastCall(p).fn = FetchCallOf(inv[p].tool)
  /\ LastCall(p).out = Return(Obj([data |-> Obj([data |-> items])]))

\* p returned a success envelope
Succeeded(p) ==
  /\ Done(p)
  /\ inv[p].result.st = "return"
  /\ "isError" \notin DOMAIN inv[p].result.v
  /\ Get(DataOf(inv[p].result), "success") = Bool(TRUE)

\* C17: for get_home_timeline, get_user_tweets and search_tweets, whenever
\* the external fetch resolves with an items collection that is null,
\* undefined or empty, the operation returns a success envelope (isError not
\* set) with count 0 and tweets the empty sequence; and in every success
\* envelope count equals the length of tweets.
C17_EmptyItems ==
  \A p \in DOMAIN inv :
    /\ \A items \in {Null, Undef, Arr(<<>>)} :
         FetchResolvedWith(p, items) =>
           /\ Succeeded(p)
           /\ Get(DataOf(inv[p].result), "count") = Num(0)
           /\ Get(DataOf(inv[p].result), "tweets") = Arr(<<>>)
    /\ (Succeeded(p) /\ FetchCallOf(inv[p].tool) # "none") =>
         Get(DataOf(inv[p].result), "count")
           = Num(Len(Get(DataOf(inv[p].result), "tweets").a))

C17_Witness ==
  \E p \in DOMAIN inv :
    /\ inv[p].tool = "search_tweets"
    /\ FetchResolvedWith(p, Null)
    /\ Succeeded(p)
    /\ Get(DataOf(inv[p].result), "count") = Num(0)

\* v without its undefined-valued properties, at every depth
RECURSIVE DefinedPart(_)
DefinedPart(v) ==
  CASE v.t = "object" ->
         Obj([k \in {j \in DOMAIN v.f : v.f[j].t # "undefined"} |-> DefinedPart(v.f[k])])
    [] v.t = "array" -> Arr([i \in 1..Len(v.a) |-> DefinedPart(v.a[i])])
    [] OTHER -> v

\* deep equality that takes an undefined-valued property for an absent one
DeepEquals(a, b) == DefinedPart(a) = DefinedPart(b)

\* C18: every successful invocation of every operation returns an envelope
\* that carries a structured mirror, and parsing the envelope's serialized
\* text gives a value deep-equal to that mirror (same fields, same values),
\* also when optional fields such as created_at are undefined in the
\* external result.
C18_MirrorRoundTrip ==
  \A p \in DOMAIN inv :
    Succeeded(p) =>
      /\ "structuredContent" \in DOMAIN inv[p].result.v
      /\ DeepEquals(DataOf(inv[p].result), inv[p].result.v.structuredContent)

(***************************************************************************)
(* Properties of the registry (checked under Spec)                         *)
(***************************************************************************)
RegistrationOrder ==
  <<"post_tweet", "get_home_timeline", "get_user_tweets", "search_tweets",
    "get_user_info", "like_tweet", "retweet">>

\* C19: a single registerTools(server, client) call attaches exactly 7
\* operations, in the order post_tweet, get_home_timeline, get_user_tweets,
\* search_tweets, get_user_info, like_tweet, retweet, each bound to the given
\* client and attached with its name, description, input schema, output
\* schema and an execute function bound to its own instance.
C19_RegistersSeven ==
  server.registerCalls = 1 =>
    /\ Len(server.tools) = 7
    /\ [k \in 1..Len(server.tools) |-> server.tools[k].name] = RegistrationOrder
    /\ \A k \in 1..Len(server.tools) :
         LET e == server.tools[k]
         IN /\ DOMAIN e = {"name", "description", "parameters", "outputSchema", "execute"}
            /\ e.execute.method = "execute"
            /\ e.execute.boundTo.client = TwitterClient
            /\ e.name = ToolName(e.execute.boundTo.class)
            /\ e.description = ToolDescription(e.execute.boundTo.class)
            /\ e.parameters = Parameters(e.execute.boundTo.class)

MatchesErrorId(s) ==
  /\ Len(s) = 8
  /\ \A i \in 1..8 : \E j \in 1..16 : SubSeq(s, i, i) = SubSeq("0123456789abcdef", j, j)

\* C22: every failure envelope built by createErrorResponse (generic or
\* rate-limit) carries an error_id matching ^[a-f0-9]{8}$; one id is generated
\* per failure, and the id returned to the caller is the id under which the
\* original error was logged.
C22_ErrorId ==
  Returned("createErrorResponse") =>
    LET id == Get(DataOf(ret), "error_id")
    IN /\ id.t = "string"
       /\ MatchesErrorId(id.s)
       /\ Len(log) >= 1
       /\ log[1] = [tag |-> "[Error " \o id.s \o "]", v |-> error]
       /\ \A k \in 2..Len(log) : log[k].tag = "[Stack " \o id.s \o "]"

C22_Witness ==
  /\ Returned("createErrorResponse")
  /\ isRateLimitError(error)
  /\ Get(DataOf(ret), "error_id") = Str("deadbeef")
  /\ log[1].tag = "[Error deadbeef]"

\* err is a non-null object with a numeric code and a nested rateLimit record
HasRateLimitRecord(e) ==
  /\ e.t = "object"
  /\ TypeOf(Get(e, "code")) = "number"
  /\ Get(e, "rateLimit").t = "object"

\* C23: extractRateLimitInfo(err) returns a RateLimitInfo exactly when err is
\* a non-null object with a numeric code that also carries a nested rateLimit
\* record, and undefined in every other case (a 429 error without a rateLimit
\* record yields undefined); a defined result copies limit, remaining and
\* reset unchanged and has resetAt equal to the ISO-8601 form of reset seconds.
C23_ExtractExactly ==
  call = "extractRateLimitInfo" =>
    /\ ret.st = "return"
    /\ (ret.v # Undef) <=> HasRateLimitRecord(error)
    /\ (ret.v # Undef) =>
          LET rl == Get(error, "rateLimit")
          IN /\ Get(ret.v, "limit") = Get(rl, "limit")
             /\ Get(ret.v, "remaining") = Get(rl, "remaining")
             /\ Get(ret.v, "reset") = Get(rl, "reset")
             /\ Get(ret.v, "resetAt") = Str(ToISOString(Get(rl, "reset").n * 1000))

\* err.code == 429 (loose equality) or err.rateLimitError === true
SignalsRateLimit(e) ==
  \/ Get(e, "code") \in {Num(429), Str("429")}
  \/ Get(e, "rateLimitError") = Bool(TRUE)

\* C24 as stated: for every error value with err.code == 429 or
\* err.rateLimitError === true, isRateLimitError(err) is true, also for an
\* object whose only field is rateLimitError: true and for a code of 429 held
\* in a non-number form.
C24_FlagOrCode ==
  (call = "isRateLimitError" /\ SignalsRateLimit(error)) => ret.v = Bool(TRUE)

\* C24 amended: isRateLimitError(err) is true for every non-null object with
\* a numeric code where code === 429 or rateLimitError === true, and false
\* for every object without a numeric code, whatever its flag or the text of
\* its code.
C24_NumericCodeRequired ==
  call = "isRateLimitError" =>
    /\ (/\ error.t = "object"
        /\ TypeOf(Get(error, "code")) = "number"
        /\ SignalsRateLimit(error)) => ret.v = Bool(TRUE)
    /\ (/\ error.t = "object"
        /\ TypeOf(Get(error, "code")) # "number") => ret.v = Bool(FALSE)

C24_Witness ==
  /\ call = "isRateLimitError"
  /\ error = Obj([rateLimitError |-> Bool(TRUE)])
  /\ ret = Return(Bool(FALSE))

\* C30: createErrorResponse is total: for every error value and prefix it
\* returns a failure envelope and never throws, also for an error with a
\* numeric code whose rateLimit record has a missing or non-numeric reset, so
\* the catch handler of an execute can never itself raise.
C30_Total ==
  call = "createErrorResponse" =>
    /\ ret.st = "return"
    /\ ret.v.isError = TRUE
    /\ Get(DataOf(ret), "success") = Bool(FALSE)

(***************************************************************************)
(* Further properties of the tool invocations (checked under Spec)         *)
(***************************************************************************)
\* p returned a failure envelope
Failed(p) ==
  /\ Done(p)
  /\ inv[p].result.st = "return"
  /\ "isError" \in DOMAIN inv[p].result.v
  /\ inv[p].result.v.isError = TRUE
  /\ Get(DataOf(inv[p].result), "success") = Bool(FALSE)

\* C21: within one invocation no external call is retried: each external call
\* of the operation's sequence is issued at most once, after an external call
\* has failed (also with a rate-limit error) no further external call is
\* issued in that invocation, and the failure is surfaced to the caller in
\* the returned envelope.
C21_NoRetry ==
  \A p \in DOMAIN inv :
    LET calls == inv[p].calls
    IN /\ \A j, k \in 1..Len(calls) : j # k => calls[j].fn # calls[k].fn
       /\ \A k \in 1..(Len(calls) - 1) : calls[k].out.st = "return"
       /\ (calls # <<>> /\ LastCall(p).out.st = "throw") => Failed(p)

\* post_tweet entered execute with exactly one attachment path
OneAttachment(p) ==
  /\ inv[p].tool = "post_tweet"
  /\ inv[p].pc \notin {"idle", "rejected"}
  /\ Truthy(inv[p].args.image_path) # Truthy(inv[p].args.video_path)

AttachmentKind(p) == IF Truthy(inv[p].args.image_path) THEN "image" ELSE "video"

\* the upload of p's attachment failed: in the helper's checks before any
\* external call, or in the upload-media call itself
UploadFailed(p) ==
  /\ Done(p)
  /\ \/ inv[p].calls = <<>>
     \/ /\ Len(inv[p].calls) = 1
        /\ inv[p].calls[1].fn = "uploadMedia:" \o AttachmentKind(p)
        /\ inv[p].calls[1].out.st = "throw"

\* C25: when post_tweet is invoked with exactly one attachment path, the
\* publish call is issued only after the corresponding upload has succeeded,
\* with media ids equal to the single returned media id; if the upload fails
\* the publish call is never issued and the failure envelope's error contains
\* "Failed to upload image" (resp. video) together with the message of the
\* underlying upload error.
C25_UploadThenPublish ==
  \A p \in DOMAIN inv :
    OneAttachment(p) =>
      LET calls == inv[p].calls
      IN /\ \A k \in 1..Len(calls) :
              calls[k].fn = "tweet" =>
                /\ k = 2
                /\ calls[1].fn = "uploadMedia:" \o AttachmentKind(p)
                /\ calls[1].out.st = "return"
                /\ calls[k].args =
                     <<Obj([text |-> inv[p].args.text,
                            media |-> Obj([media_ids |-> Arr(<<calls[1].out.v>>)])])>>
         /\ UploadFailed(p) =>
              /\ Failed(p)
              /\ Contains(Get(DataOf(inv[p].result), "error").s,
                          "Failed to upload " \o AttachmentKind(p))
              /\ (calls # <<>> /\ Get(calls[1].out.v, "message").t = "string") =>
                   Contains(Get(DataOf(inv[p].result), "error").s,
                            Get(calls[1].out.v, "message").s)

\* s is made of decimal digits only
OnlyDigits(s) ==
  \A i \in 1..Len(s) : \E j \in 1..10 : SubSeq(s, i, i) = SubSeq("0123456789", j, j)

\* C26: the tweet_id input schema of retweet accepts a tweet_id made only of
\* decimal digits (such as a 10-digit id) and rejects every tweet_id with a
\* non-digit character and every tweet_id of 21 or more digits, so that such
\* an id is refused by validation before execute.
C26_TweetIdValidated ==
  \A p \in DOMAIN inv :
    (inv[p].tool = "retweet" /\ inv[p].via = "dispatch") =>
      LET id == inv[p].args.tweet_id.s
      IN /\ (OnlyDigits(id) /\ Len(id) \in 1..20) => inv[p].pc # "rejected"
         /\ (~OnlyDigits(id) \/ Len(id) >= 21) =>
              /\ inv[p].pc = "rejected"
              /\ inv[p].calls = <<>>

\* the declared output shape of each tool: the fields of the payload, of a
\* tweet item, of the user record and of its metrics record
OutputFields(tool) ==
  CASE tool = "post_tweet" -> {"success", "tweet_id", "text"}
    [] tool = "get_home_timeline" -> {"success", "count", "tweets"}
    [] tool = "get_user_tweets" -> {"success", "username", "count", "tweets"}
    [] tool = "search_tweets" -> {"success", "query", "count", "tweets"}
    [] tool = "get_user_info" -> {"success", "user"}
    [] OTHER -> {"success", "message"}
TweetFields == {"id", "text", "created_at"}
UserRecordFields ==
  {"id", "username", "name", "description", "created_at", "verified", "location", "metrics"}
MetricsFields == {"followers_count", "following_count", "tweet_count", "listed_count"}

\* the fields of payload d stay within the declared output shape of tool
WithinOutputShape(tool, d) ==
  /\ DOMAIN d.f \subseteq OutputFields(tool)
  /\ Has(d, "tweets") =>
       \A k \in 1..Len(d.f.tweets.a) : DOMAIN d.f.tweets.a[k].f \subseteq TweetFields
  /\ Has(d, "user") =>
       /\ DOMAIN d.f.user.f \subseteq UserRecordFields
       /\ Has(d.f.user, "metrics") => DOMAIN d.f.user.f.metrics.f \subseteq MetricsFields

\* C27: on success each operation's payload contains only the fields of its
\* declared output shape; a field of the external result that is not in that
\* shape (on a tweet item, on the user record, or inside the user's metrics
\* record) never appears in the envelope.
C27_OnlyDeclaredFields ==
  \A p \in DOMAIN inv :
    Succeeded(p) => WithinOutputShape(inv[p].tool, DataOf(inv[p].result))

\* the upload helper of p's attachment ran: stat was called on its path
UploadHelperCalled(p) ==
  /\ inv[p].tool = "post_tweet"
  /\ inv[p].stat # NoStat

AttachmentPath(p) ==
  IF AttachmentKind(p) = "image" THEN inv[p].args.image_path.s
  ELSE inv[p].args.video_path.s
AllowList(kind) == IF kind = "image" THEN IMAGE_MIME_TYPES ELSE VIDEO_MIME_TYPES
Ceiling(kind) == IF kind = "image" THEN MAX_IMAGE_SIZE ELSE MAX_VIDEO_SIZE

\* the helper raised an error containing text, and upload-media was not called
RaisedBeforeUpload(p, text) ==
  /\ Failed(p)
  /\ inv[p].calls = <<>>
  /\ Contains(Get(DataOf(inv[p].result), "error").s, text)

\* C28: uploadImage and uploadVideo check in the order: file exists (else
\* "File not found"), path is a regular file (else "Path is not a file"),
\* size does not exceed the ceiling (5MB / 512MB; exactly the ceiling is
\* accepted), extension is in the allow-list; the first failing check raises
\* its error and upload-media is not called; when all pass, upload-media is
\* called exactly once with the MIME type derived from the extension, and for
\* videos with the long-video flag set exactly when the size exceeds 15MB.
C28_UploadChecks ==
  \A p \in DOMAIN inv :
    UploadHelperCalled(p) =>
      LET st == inv[p].stat
          kind == AttachmentKind(p)
          ext == AfterLast(ToLowerCase(AttachmentPath(p)), ".")
          calls == inv[p].calls
      IN /\ ~st.exists => RaisedBeforeUpload(p, "File not found")
         /\ (st.exists /\ ~st.isFile) => RaisedBeforeUpload(p, "Path is not a file")
         /\ (st.isFile /\ st.size > Ceiling(kind)) =>
              RaisedBeforeUpload(p, IF kind = "image" THEN "Image size exceeds 5MB limit"
                                    ELSE "Video size exceeds 512MB limit")
         /\ (st.isFile /\ st.size <= Ceiling(kind) /\ ext \notin DOMAIN AllowList(kind)) =>
              RaisedBeforeUpload(p, "Unsupported " \o kind \o " format")
         /\ (st.isFile /\ st.size <= Ceiling(kind) /\ ext \in DOMAIN AllowList(kind)) =>
              /\ calls # <<>>
              /\ Cardinality({k \in 1..Len(calls) : calls[k].fn = "uploadMedia:" \o kind}) = 1
              /\ calls[1].fn = "uploadMedia:" \o kind
              /\ Get(calls[1].args[1], "mimeType") = Str(AllowList(kind)[ext])
              /\ kind = "video" =>
                   Get(calls[1].args[1], "longVideo") = Bool(st.size > LONG_VIDEO_SIZE)

(***************************************************************************)
(* Properties of concurrent invocations (checked under SpecPair)           *)
(***************************************************************************)
\* p was called as the reference invocation was
SameCall(p) ==
  /\ inv[p].tool = inv["alone"].tool
  /\ inv[p].via = inv["alone"].via
  /\ inv[p].args = inv["alone"].args
  /\ inv[p].stat = inv["alone"].stat

\* the first k external calls of p settled as those of the reference did
SameOutcomes(p, k) ==
  /\ k <= Len(inv[p].calls)
  /\ k <= Len(inv["alone"].calls)
  /\ \A j \in 1..k : inv[p].calls[j].out = inv["alone"].calls[j].out

\* a settled result without its random error id
ModuloErrorId(r) ==
  IF r.st = "return" /\ Has(DataOf(r), "error_id")
  THEN [r EXCEPT !.v.content[1].text.f.error_id = Str("")]
  ELSE r

====
